---- MODULE Spec2Model ----
(***************************************************************************)
(* Model of the node start-up (block 0 resolution and blockchain loading,  *)
(* jormungandr/src/start_up/mod.rs) and of the sea-bottle gossip rack      *)
(* (jormungandr/src/network/sea_bottle/mod.rs).                            *)
(***************************************************************************)
EXTENDS Integers, Sequences, FiniteSets, TLC

VARIABLES
    pc,         \* position of the start-up sequence of the node process
    runs,       \* number of runs of the node started so far
    settings,   \* settings.block_0 of the current run
    storage,    \* the block store: stored blocks, main-branch tag
    calls,      \* collaborator operations invoked by the current prepare_block_0
    fetchArgs,  \* hashes passed to network::fetch_block by the current prepare_block_0
    existed,    \* answer of connection.block_exists in the current prepare_block_0
    got,        \* outcome of connection.get_block in the current prepare_block_0
    fetched,    \* outcome of network::fetch_block in the current prepare_block_0
    prepared,   \* result of prepare_block_0 in the current run
    cur,        \* the load_blockchain call in progress
    loads,      \* completed load_blockchain calls, oldest first
    writes,     \* number of put_block operations per block hash
    cache,      \* BottleRack.cache, most recently used first
    tpc,        \* position of each delivering task inside handle_blob
    tblob,      \* blob each delivering task is handling
    verdicts,   \* handle_blob verdicts in order: <<task, blob, judged new>>
    broadcasts, \* blobs handed to broadcast_blob, in order
    out_channel,\* BottleRack.out_channel: items enqueued for outbound delivery
    snapshot,   \* stake distribution of the epoch leadership schedule of a blockchain::Ref
    ranking,    \* what stake_pools_sorted_by returned for the snapshot
    wpc,        \* position of a wait_for_bootstrap call of a LegacyNodeController
    polls,      \* iterations of the polling loop of wait_for_bootstrap begun so far
    requests,   \* node/stats requests sent by the wait_for_bootstrap call so far
    slept,      \* seconds the wait_for_bootstrap call has slept so far
    last,       \* what self.stats() returned to the latest poll
    wres,       \* what wait_for_bootstrap returned
    fpc,        \* position of a wait_fragment call of a LegacyNodeController
    fduration,  \* the duration argument of the wait_fragment call, in seconds
    fpolls,     \* iterations of the polling loop of wait_fragment begun so far
    fpending,   \* polls of the wait_fragment call that found the fragment Pending
    fslept,     \* seconds the wait_fragment call has slept so far
    flog,       \* what the latest poll of wait_fragment found for the fragment
    fres,       \* what wait_fragment returned
    nproc,      \* the LegacyNode future: "none", "failed" (spawn), "running", "done"
    nstatus,    \* the Status behind the Arc<Mutex<..>> of the node and its controllers
    nctl,       \* number of LegacyNodeControllers created from the node
    npolled,    \* number of polls of the LegacyNode future so far
    nlast,      \* what process.poll(cx) gave to the latest poll of the future
    nchecked,   \* the latest check_running(): who asked, the status then, the answer
    dpc,        \* position of a shutdown call of a LegacyNodeController
    dbody,      \* what the shutdown request answered
    dpolls,     \* iterations of the loop of wait_for_shutdown begun so far
    dslept,     \* seconds wait_for_shutdown has slept so far
    dobs,       \* what the polls of wait_for_shutdown observed, oldest first
    dres,       \* what shutdown returned
    apc,        \* position of a call of assert_nodes_are_in_sync
    anodes,     \* nodes.len() of the call
    aslept,     \* seconds the call has slept
    aqueried,   \* stats requests the call has sent so far
    aheights    \* last_block_height read from the nodes so far, in list order

startVars == <<pc, runs, settings, storage, calls, fetchArgs, existed, got, fetched,
               prepared, cur, loads, writes>>
rackVars == <<cache, tpc, tblob, verdicts, broadcasts, out_channel>>
rankVars == <<snapshot, ranking>>
bootVars == <<wpc, polls, requests, slept, last, wres>>
fragVars == <<fpc, fduration, fpolls, fpending, fslept, flog, fres>>
nodeVars == <<nproc, nstatus, nctl, npolled, nlast, nchecked>>
downVars == <<dpc, dbody, dpolls, dslept, dobs, dres>>
syncVars == <<apc, anodes, aslept, aqueried, aheights>>
harnessVars == <<fragVars, nodeVars, downVars, syncVars>>
exceptFrag == <<startVars, rackVars, rankVars, bootVars, nodeVars, downVars, syncVars>>
exceptNode == <<startVars, rackVars, rankVars, bootVars, fragVars, downVars, syncVars>>
exceptDown == <<startVars, rackVars, rankVars, bootVars, fragVars, nodeVars, syncVars>>
exceptSync == <<startVars, rackVars, rankVars, bootVars, fragVars, nodeVars, downVars>>
vars == <<startVars, rackVars, rankVars, bootVars, harnessVars>>

----------------------------------------------------------------------------
(* Bounds *)

NHashes == 2
NBodies == 1
MaxRuns == 3

(* Values *)

Hashes == 1..NHashes
Bodies == 1..NBodies
Block == [hash : Hashes, body : Bodies]
NoTag == 0

Ok(v) == [ok |-> TRUE, val |-> v]
Err(e) == [ok |-> FALSE, err |-> e]
NotCalled == [called |-> FALSE]
IsCalled(r) == "ok" \in DOMAIN r

\* block0.header.hash()
HeaderHash(b) == b.hash

StorageErrors == {"BackendError", "BlockNotFound"}
FetchBlockErrors == {"NoTrustedPeers", "Timeout"}
Block0AlreadyInStorage == "Block0AlreadyInStorage"
OtherBlockchainErrors == {"Storage", "Block0InitialLedgerError"}

\* settings.block_0: a path (with what the file holds) or a hash
FileContents == {[content |-> "Unreadable"], [content |-> "Malformed"]}
                    \cup {[content |-> "Block", block |-> b] : b \in Block}
Block0Info == [kind : {"Path"}, file : FileContents] \cup [kind : {"Hash"}, hash : Hashes]

\* variant: the open failure carries the reason prepare_storage gives
IoErrorSQLite == [variant |-> "IO", reason |-> "SQLite"]

\* conversions into the start-up Error
IoError == [variant |-> "IO", reason |-> "Block0"]
ParseError == [variant |-> "ParseError", reason |-> "Block0"]
StorageErrorInto(e) == [variant |-> "StorageBackendError", source |-> e]
FetchBlockErrorInto(e) == [variant |-> "NotFoundError"]
BlockchainErrorInto(k) == [variant |-> "Blockchain", source |-> k]

----------------------------------------------------------------------------
(* The block store *)

EmptyStore == [blocks |-> {}, tag |-> NoTag]
block_exists(s, h) == \E b \in s.blocks : HeaderHash(b) = h
get_block(s, h) == CHOOSE b \in s.blocks : HeaderHash(b) = h
put_block(s, b) == [s EXCEPT !.blocks = @ \cup {b}]
put_tag(s, h) == [s EXCEPT !.tag = h]

NoCalls == [open |-> 0, deserialize |-> 0, connect |-> 0, block_exists |-> 0,
            get_block |-> 0, fetch_block |-> 0]
Called(op) == calls' = [calls EXCEPT ![op] = @ + 1]

----------------------------------------------------------------------------
(* Start of a run of the node: the settings are read, prepare_block_0 begins *)

Start ==
    /\ pc \in {"init", "exit", "stopped"}
    /\ runs < MaxRuns
    /\ runs' = runs + 1
    /\ \E b0 \in Block0Info : settings' = b0
    /\ pc' = "prepare"
    /\ calls' = NoCalls
    /\ fetchArgs' = <<>>
    /\ existed' = NotCalled
    /\ got' = NotCalled
    /\ fetched' = NotCalled
    /\ prepared' = NotCalled
    /\ cur' = NotCalled
    /\ UNCHANGED <<storage, loads, writes, rackVars, rankVars, bootVars, harnessVars>>

\* variant: the settings are always taken for a hash
TakesPathArmNever(b0) == FALSE

\* `match &settings.block_0 { Block0Info::Path(path) => ..`
TakesPathArm(b0) == b0.kind = "Path"

\* Block0Info::Path: std::fs::File::open(path)
OpenFile ==
    /\ pc = "prepare"
    /\ TakesPathArm(settings)
    /\ Called("open")
    /\ IF settings.file.content = "Unreadable"
         THEN prepared' = Err(IoError) /\ pc' = "exit"
         ELSE prepared' = prepared /\ pc' = "deserialize"
    /\ UNCHANGED <<runs, settings, storage, fetchArgs, existed, got, fetched, cur, loads,
                   writes, rackVars, rankVars, bootVars, harnessVars>>

\* Block0Info::Path: Block::deserialize(reader)
Deserialize ==
    /\ pc = "deserialize"
    /\ Called("deserialize")
    /\ IF settings.file.content = "Malformed"
         THEN prepared' = Err(ParseError) /\ pc' = "exit"
         ELSE prepared' = Ok(settings.file.block) /\ pc' = "load"
    /\ UNCHANGED <<runs, settings, storage, fetchArgs, existed, got, fetched, cur, loads,
                   writes, rackVars, rankVars, bootVars, harnessVars>>

\* Block0Info::Hash: spawn_blocking(move || storage.connect()).await
Connect ==
    /\ pc = "prepare"
    /\ ~TakesPathArm(settings)
    /\ Called("connect")
    /\ \/ prepared' = prepared /\ pc' = "exists"
       \/ \E e \in StorageErrors : prepared' = Err(StorageErrorInto(e)) /\ pc' = "exit"
    /\ UNCHANGED <<runs, settings, storage, fetchArgs, existed, got, fetched, cur, loads,
                   writes, rackVars, rankVars, bootVars, harnessVars>>

\* variant: the network is asked whatever the store answered
AfterExistsAlwaysFetch(answer) == "fetch"

\* where prepare_block_0 goes after connection.block_exists(block0_id) answered
AfterExists(answer) == IF answer THEN "get" ELSE "fetch"

\* variant: a failed existence check is taken for the answer "absent"
ExistsResultOrAbsent(r) == IF r.ok THEN r ELSE Ok(FALSE)

\* the `?` applied to the answer of block_exists: a failure leaves the function
ExistsResult(r) == r

\* connection.block_exists(block0_id)?
BlockExists ==
    /\ pc = "exists"
    /\ Called("block_exists")
    /\ \E r \in {Ok(block_exists(storage, settings.hash))} \cup {Err(e) : e \in StorageErrors} :
         /\ existed' = r
         /\ IF ExistsResult(r).ok
              THEN /\ prepared' = prepared
                   /\ pc' = AfterExists(ExistsResult(r).val)
              ELSE /\ prepared' = Err(StorageErrorInto(ExistsResult(r).err))
                   /\ pc' = "exit"
    /\ UNCHANGED <<runs, settings, storage, fetchArgs, got, fetched, cur, loads, writes,
                   rackVars, rankVars, bootVars, harnessVars>>

\* spawn_blocking(move || connection.get_block(&block0_id)).await
GetBlock ==
    /\ pc = "get"
    /\ Called("get_block")
    /\ \/ /\ got' = Ok(get_block(storage, settings.hash))
          /\ prepared' = Ok(get_block(storage, settings.hash))
          /\ pc' = "load"
       \/ \E e \in StorageErrors :
            /\ got' = Err(e)
            /\ prepared' = Err(StorageErrorInto(e))
            /\ pc' = "exit"
    /\ UNCHANGED <<runs, settings, storage, fetchArgs, existed, fetched, cur, loads, writes,
                   rackVars, rankVars, bootVars, harnessVars>>

\* what network::fetch_block may hand back: a block sent by a peer, or a failure
FetchBlockOutcomes == {Ok(b) : b \in Block} \cup {Err(e) : e \in FetchBlockErrors}

\* variant: a fetched block is accepted only when its hash is the requested one
FetchResultVerified(h, r) ==
    IF r.ok
      THEN IF HeaderHash(r.val) = h THEN Ok(r.val) ELSE Err(FetchBlockErrorInto("HashMismatch"))
      ELSE Err(FetchBlockErrorInto(r.err))

\* variant: the failure keeps the cause the network reported
FetchResultKeepsCause(h, r) ==
    IF r.ok THEN Ok(r.val) ELSE Err([variant |-> "NotFoundError", cause |-> r.err])

\* the result prepare_block_0 makes of the outcome of network::fetch_block
FetchResult(h, r) == IF r.ok THEN Ok(r.val) ELSE Err(FetchBlockErrorInto(r.err))

\* variant: a failed fetch is tried again
AfterFetchRetry(res) == IF res.ok THEN "load" ELSE "fetch"

\* the fetch is the last statement of the Hash arm: its result is the function's
AfterFetch(res) == IF res.ok THEN "load" ELSE "exit"

\* network::fetch_block(&settings.network, *block0_id, logger).await.map_err(|e| e.into())
FetchBlock ==
    /\ pc = "fetch"
    /\ Called("fetch_block")
    /\ fetchArgs' = Append(fetchArgs, settings.hash)
    /\ \E r \in FetchBlockOutcomes :
         /\ fetched' = r
         /\ prepared' = FetchResult(settings.hash, r)
         /\ pc' = AfterFetch(FetchResult(settings.hash, r))
    /\ UNCHANGED <<runs, settings, storage, existed, got, cur, loads, writes, rackVars, rankVars, bootVars, harnessVars>>

----------------------------------------------------------------------------
(* load_blockchain *)

\* Blockchain::load_from_block0: the result and the store it leaves
LoadFromBlock0Outcomes(s, b) ==
    (IF block_exists(s, HeaderHash(b))
       THEN {[res |-> Err(Block0AlreadyInStorage), store |-> s, put |-> FALSE]}
       ELSE {[res |-> Ok(HeaderHash(b)),
              store |-> put_tag(put_block(s, b), HeaderHash(b)), put |-> TRUE]})
    \cup {[res |-> Err(e), store |-> s, put |-> FALSE] : e \in OtherBlockchainErrors}

\* Blockchain::load_from_storage: the branch the stored chain ends with
LoadFromStorageOutcomes(s, b) ==
    (IF s.tag # NoTag THEN {Ok(s.tag)} ELSE {Err("NoTag")})
    \cup {Err(e) : e \in OtherBlockchainErrors}

\* variant: every failure of load_from_block0 falls back to the storage
CallsLoadFromStorageOnAnyError(fresh) == ~fresh.ok

\* variant: no fallback to the storage
CallsLoadFromStorageNever(fresh) == FALSE

\* variant: the storage is loaded after load_from_block0 whatever it returned
CallsLoadFromStorageAlways(fresh) == TRUE

\* the arm `Err(error) => match error.kind() { Block0AlreadyInStorage => load_from_storage`
CallsLoadFromStorage(fresh) == ~fresh.ok /\ fresh.err = Block0AlreadyInStorage

\* variant: every failure is reported as a storage failure
LoadBlockchainResultOneKind(block0, branch) ==
    IF branch.ok
      THEN Ok([blockchain |-> HeaderHash(block0), tip |-> branch.val])
      ELSE Err(BlockchainErrorInto("Storage"))

\* `}?; Ok((blockchain, Tip::new(main_branch)))` applied to the value of the match
LoadBlockchainResult(block0, branch) ==
    IF branch.ok
      THEN Ok([blockchain |-> HeaderHash(block0), tip |-> branch.val])
      ELSE Err(BlockchainErrorInto(branch.err))

\* blockchain.load_from_block0(block0.clone()).wait() and the match on its result
LoadFromBlock0 ==
    /\ pc = "load"
    /\ \E o \in LoadFromBlock0Outcomes(storage, prepared.val) :
         /\ storage' = o.store
         /\ writes' = IF o.put
                        THEN [writes EXCEPT ![HeaderHash(prepared.val)] = @ + 1]
                        ELSE writes
         /\ IF CallsLoadFromStorage(o.res)
              THEN /\ cur' = [block0 |-> prepared.val, before |-> storage, fresh |-> o.res]
                   /\ loads' = loads
                   /\ pc' = "resume"
              ELSE /\ cur' = NotCalled
                   /\ loads' = Append(loads,
                        [block0 |-> prepared.val, before |-> storage, fresh |-> o.res,
                         resume |-> NotCalled,
                         result |-> LoadBlockchainResult(prepared.val, o.res)])
                   /\ pc' = IF LoadBlockchainResult(prepared.val, o.res).ok
                              THEN "stopped" ELSE "exit"
    /\ UNCHANGED <<runs, settings, calls, fetchArgs, existed, got, fetched, prepared,
                   rackVars, rankVars, bootVars, harnessVars>>

\* blockchain.load_from_storage(block0).wait(), whose result is the value of the match
LoadFromStorage ==
    /\ pc = "resume"
    /\ \E r \in LoadFromStorageOutcomes(storage, cur.block0) :
         /\ loads' = Append(loads,
              [block0 |-> cur.block0, before |-> cur.before, fresh |-> cur.fresh,
               resume |-> r, result |-> LoadBlockchainResult(cur.block0, r)])
         /\ pc' = IF LoadBlockchainResult(cur.block0, r).ok THEN "stopped" ELSE "exit"
    /\ cur' = NotCalled
    /\ UNCHANGED <<runs, settings, storage, calls, fetchArgs, existed, got, fetched,
                   prepared, writes, rackVars, rankVars, bootVars, harnessVars>>

----------------------------------------------------------------------------
(* How each storage operation of start-up is executed *)

StorageOps == {"connect", "block_exists", "get_block", "load_from_block0", "load_from_storage"}

\* "spawn_blocking": the closure runs on the blocking pool and the async fn
\* awaits it; "direct": the call is a plain expression of the async fn;
\* "wait": the future is driven by .wait(), which blocks the calling thread
ExecutionContext(op) ==
    CASE op = "connect" -> "spawn_blocking"
      [] op = "block_exists" -> "direct"
      [] op = "get_block" -> "spawn_blocking"
      [] op = "load_from_block0" -> "wait"
      [] op = "load_from_storage" -> "wait"

\* the operations prepare_block_0 runs on the connection that storage.connect() gave
UsesOfConnection == calls.block_exists + calls.get_block

----------------------------------------------------------------------------
(* BottleRack *)

CACHE_SIZE == 1024

NTasks == 2
NBlobs == 2
MaxDeliveries == 3

Tasks == 1..NTasks
Blobs == 1..NBlobs

\* LruCache::new(CACHE_SIZE)
NewCache == <<>>

\* LruCache::contains: membership, the recency order is left alone
contains(c, x) == \E i \in 1..Len(c) : c[i] = x

\* variant: the id is put in front, nothing is evicted
CacheAfterHandlePush(c, x) == <<x>> \o c

\* the cache handle_blob leaves after its membership test on x
CacheAfterHandle(c, x) == c

\* variant: every delivery is taken for new
JudgedNewAlways(c, x) == TRUE

\* the condition of handle_blob: `!self.cache.contains(blob)`
JudgedNew(c, x) == ~contains(c, x)

\* handle_blob up to the call of broadcast_blob
HandleBlobStep(t, x) ==
    /\ tpc[t] = "idle"
    /\ verdicts' = Append(verdicts, <<t, x, JudgedNew(cache, x)>>)
    /\ cache' = CacheAfterHandle(cache, x)
    /\ IF JudgedNew(cache, x)
         THEN tpc' = [tpc EXCEPT ![t] = "broadcast"] /\ tblob' = [tblob EXCEPT ![t] = x]
         ELSE UNCHANGED <<tpc, tblob>>
    /\ UNCHANGED <<broadcasts, out_channel, startVars, rankVars, bootVars, harnessVars>>

\* handle_blob: a task delivers any blob id
HandleBlob(t, x) ==
    /\ Len(verdicts) < MaxDeliveries
    /\ HandleBlobStep(t, x)

\* handle_blob: task 1 delivers the next blob id not delivered before
Fill ==
    /\ Len(verdicts) < CACHE_SIZE + 1
    /\ HandleBlobStep(1, Len(verdicts) + 1)

\* the outbound queue broadcast_blob leaves: its body is empty
OutChannelAfterBroadcast(q, x) == q

\* handle_blob: `self.broadcast_blob(blob)`; the body of broadcast_blob is empty
BroadcastBlob(t) ==
    /\ tpc[t] = "broadcast"
    /\ broadcasts' = Append(broadcasts, tblob[t])
    /\ tpc' = [tpc EXCEPT ![t] = "idle"]
    /\ out_channel' = OutChannelAfterBroadcast(out_channel, tblob[t])
    /\ UNCHANGED <<cache, tblob, verdicts, startVars, rankVars, bootVars, harnessVars>>

----------------------------------------------------------------------------
(* stake_pools_sorted_by *)

NPools == 3
MaxStake == 5

PoolIds == 1..NPools
\* PoolStakeInformation, reduced to stake.total
PoolStakeInformation == [total : {10 * k : k \in 1..MaxStake}]

\* stake_distribution() of the schedule: None, or the pools as to_pools.iter() yields them
NoDistribution == [some |-> FALSE, to_pools |-> <<>>]
IdOrders(n) == {p \in [1..n -> PoolIds] : \A i, j \in 1..n : i # j => p[i] # p[j]}
Distribution(n, ids, info) ==
    [some |-> TRUE, to_pools |-> [k \in 1..n |-> <<ids[k], info[k]>>]]

\* pool_a.stake.total.cmp(&pool_b.stake.total)
cmp_pool_stake_information_by_stake_total ==
    [pool_a \in PoolStakeInformation, pool_b \in PoolStakeInformation |->
        IF pool_a.total < pool_b.total THEN "Less"
        ELSE IF pool_a.total = pool_b.total THEN "Equal"
        ELSE "Greater"]

Front(q) == SubSeq(q, 1, Len(q) - 1)
Last(q) == q[Len(q)]

\* one insertion step of the stable slice::sort_by: e moves left past every
\* element the comparator calls Greater; cmps counts the comparator calls
RECURSIVE InsertSorted(_, _, _)
\* variant: e also moves past the elements the comparator calls Equal (not stable)
InsertSortedPastEqual(q, e, comp) ==
    IF q = <<>> THEN [out |-> <<e>>, cmps |-> 0]
    ELSE IF comp[Last(q)[2], e[2]] # "Less"
      THEN LET r == InsertSorted(Front(q), e, comp)
           IN  [out |-> Append(r.out, Last(q)), cmps |-> r.cmps + 1]
      ELSE [out |-> Append(q, e), cmps |-> 1]

InsertSorted(q, e, comp) ==
    IF q = <<>> THEN [out |-> <<e>>, cmps |-> 0]
    ELSE IF comp[Last(q)[2], e[2]] = "Greater"
      THEN LET r == InsertSorted(Front(q), e, comp)
           IN  [out |-> Append(r.out, Last(q)), cmps |-> r.cmps + 1]
      ELSE [out |-> Append(q, e), cmps |-> 1]

\* pools.sort_by(|&(_, information_a), &(_, information_b)| comp(information_a, information_b))
RECURSIVE sort_by(_, _)
sort_by(q, comp) ==
    IF q = <<>> THEN [out |-> <<>>, cmps |-> 0]
    ELSE LET r == sort_by(Front(q), comp)
             i == InsertSorted(r.out, Last(q), comp)
         IN  [out |-> i.out, cmps |-> r.cmps + i.cmps]

\* variant: the last pool of the reversed list is left out
IdsRevShort(q) == [i \in 1..(Len(q) - 1) |-> q[Len(q) + 1 - i][1]]

\* pools.iter().map(|&(id, _)| id.clone()).rev().collect()
IdsRev(q) == [i \in 1..Len(q) |-> q[Len(q) + 1 - i][1]]

\* variant: the sorted pools are collected without .rev()
stake_pools_sorted_by_no_rev(dist, comp) ==
    IF ~dist.some THEN [out |-> <<>>, cmps |-> 0]
    ELSE [out |-> [i \in 1..Len(dist.to_pools) |-> sort_by(dist.to_pools, comp).out[i][1]],
          cmps |-> sort_by(dist.to_pools, comp).cmps]

\* variant: without a distribution the first pool id is returned
stake_pools_sorted_by_default_pool(dist, comp) ==
    IF ~dist.some THEN [out |-> <<1>>, cmps |-> 0]
    ELSE [out |-> IdsRev(sort_by(dist.to_pools, comp).out),
          cmps |-> sort_by(dist.to_pools, comp).cmps]

\* stake_pools_sorted_by: the ids returned and the number of comparator calls made
stake_pools_sorted_by(dist, comp) ==
    IF ~dist.some THEN [out |-> <<>>, cmps |-> 0]
    ELSE LET pools == sort_by(dist.to_pools, comp)
         IN  [out |-> IdsRev(pools.out), cmps |-> pools.cmps]

\* variant: the pools of the distribution themselves are sorted
SnapshotAfterRankSorted(dist, comp) ==
    [dist EXCEPT !.to_pools = sort_by(dist.to_pools, comp).out]

\* the distribution after a ranking: `pools` is a Vec of references collected
\* from to_pools.iter(), the sort permutes that Vec and the ids are cloned
SnapshotAfterRank(dist, comp) == dist

\* stake_pools_sorted_by(block_ref, cmp_pool_stake_information_by_stake_total)
Rank ==
    /\ ~IsCalled(ranking)
    /\ ranking' = Ok(stake_pools_sorted_by(snapshot, cmp_pool_stake_information_by_stake_total))
    /\ snapshot' = SnapshotAfterRank(snapshot, cmp_pool_stake_information_by_stake_total)
    /\ UNCHANGED <<startVars, rackVars, bootVars, harnessVars>>

\* comparators a caller may pass as `comp`: any Fn(&PoolStakeInformation,
\* &PoolStakeInformation) -> Ordering, a total order or not
Orderings == {"Less", "Equal", "Greater"}
Comparators ==
    {cmp_pool_stake_information_by_stake_total}
      \cup {[pool_a \in PoolStakeInformation, pool_b \in PoolStakeInformation |->
               cmp_pool_stake_information_by_stake_total[pool_b, pool_a]]}
      \cup {[pool_a \in PoolStakeInformation, pool_b \in PoolStakeInformation |-> o] :
               o \in Orderings}
      \cup {[pool_a \in PoolStakeInformation, pool_b \in PoolStakeInformation |->
               IF (pool_a.total \div 10) % 2 = 0 THEN "Greater" ELSE "Less"]}

\* stake_pools_sorted_by(block_ref, comp), by any caller, any number of times
RankBy ==
    \E comp \in Comparators :
        /\ ranking' = Ok(stake_pools_sorted_by(snapshot, comp))
        /\ snapshot' = SnapshotAfterRank(snapshot, comp)
        /\ UNCHANGED <<startVars, rackVars, bootVars, harnessVars>>

----------------------------------------------------------------------------
(* LegacyNodeController::wait_for_bootstrap *)

\* let max_try = 20; let sleep = Duration::from_secs(8);
WaitForBootstrapMaxTry == 20
WaitForBootstrapSleep == 8

\* what self.stats() may return: the stats document of the node, reduced to
\* its "state" entry, or the failure of the request or of the YAML loader
NodeStates == {"Bootstrapping", "Running"}
StatsErrors == {"Reqwest", "Scan"}
StatsOutcomes == {Ok(st) : st \in NodeStates} \cup {Err(e) : e \in StatsErrors}

\* variant: a failed stats request ends the wait
AfterStatsFailFast(stats) ==
    IF stats.ok THEN (IF stats.val = "Running" THEN "log" ELSE "sleep") ELSE "bail"

\* the match on stats: Running leads to log_stats and the return, any other
\* state and any failure to the sleep
AfterStats(stats) == IF stats.ok /\ stats.val = "Running" THEN "log" ELSE "sleep"

\* for _ in 0..max_try: where the loop goes after n iterations
AfterSleep(n) == IF n < WaitForBootstrapMaxTry THEN "poll" ELSE "bail"

\* Duration::from_secs(sleep.as_secs() * max_try)
ReportedDuration == WaitForBootstrapSleep * WaitForBootstrapMaxTry

\* let stats = self.stats(); match stats { .. }
PollStats ==
    /\ wpc = "poll"
    /\ polls' = polls + 1
    /\ requests' = requests + 1
    /\ \E stats \in StatsOutcomes :
         /\ last' = stats
         /\ wpc' = AfterStats(stats)
    /\ UNCHANGED <<slept, wres, startVars, rackVars, rankVars, harnessVars>>

\* self.log_stats(); return Ok(()): log_stats formats the result of one more self.stats()
LogStats ==
    /\ wpc = "log"
    /\ requests' = requests + 1
    /\ wres' = Ok("unit")
    /\ wpc' = "returned"
    /\ UNCHANGED <<polls, slept, last, startVars, rackVars, rankVars, harnessVars>>

\* std::thread::sleep(sleep), end of one iteration
Sleep ==
    /\ wpc = "sleep"
    /\ slept' = slept + WaitForBootstrapSleep
    /\ wpc' = AfterSleep(polls)
    /\ UNCHANGED <<polls, requests, last, wres, startVars, rackVars, rankVars, harnessVars>>

\* bail!(ErrorKind::NodeFailedToBootstrap(alias, duration, log))
Bail ==
    /\ wpc = "bail"
    /\ wres' = Err([kind |-> "NodeFailedToBootstrap", duration |-> ReportedDuration])
    /\ wpc' = "returned"
    /\ UNCHANGED <<polls, requests, slept, last, startVars, rackVars, rankVars, harnessVars>>

----------------------------------------------------------------------------
(* LegacyNodeController::wait_fragment *)

\* let max_try = 50;
WaitFragmentMaxTry == 50

MaxDuration == 2
Durations == 1..MaxDuration

\* self.fragment_logs() followed by logs.get(&check.fragment_id()): the request
\* fails, or the logs lack the fragment, or they hold it with a status
FragmentStatus == {"Pending", "Rejected", "InABlock"}
FragmentLogsErrors == {"Reqwest"}
FragmentLogsOutcomes ==
    {Err(e) : e \in FragmentLogsErrors}
      \cup {Ok([some |-> FALSE])}
      \cup {Ok([some |-> TRUE, status |-> st]) : st \in FragmentStatus}

\* variant: a pending fragment is returned like a settled one
FragmentResultPendingOk(logs) ==
    IF ~logs.ok THEN Err([kind |-> "Request", source |-> logs.err])
    ELSE IF ~logs.val.some THEN Err([kind |-> "FragmentNoInMemPoolLogs"])
    ELSE Ok(logs.val.status)

\* what one iteration returns from the function, NotCalled when it goes on to
\* the sleep: the `?`, the if let .. else bail!, the match on log.status()
FragmentResult(logs) ==
    IF ~logs.ok THEN Err([kind |-> "Request", source |-> logs.err])
    ELSE IF ~logs.val.some THEN Err([kind |-> "FragmentNoInMemPoolLogs"])
    ELSE IF logs.val.status = "Pending" THEN NotCalled
    ELSE Ok(logs.val.status)

\* for _ in 0..max_try: where the loop goes after n iterations
AfterFragmentSleep(n) == IF n < WaitFragmentMaxTry THEN "poll" ELSE "bail"

\* node.wait_fragment(duration, check)
WaitFragment ==
    /\ fpc = "idle"
    /\ \E d \in Durations : fduration' = d
    /\ fpc' = "poll"
    /\ UNCHANGED <<fpolls, fpending, fslept, flog, fres, exceptFrag>>

\* one iteration up to the sleep
PollFragmentLogs ==
    /\ fpc = "poll"
    /\ fpolls' = fpolls + 1
    /\ \E logs \in FragmentLogsOutcomes :
         /\ flog' = logs
         /\ fpending' = IF logs.ok /\ logs.val.some /\ logs.val.status = "Pending"
                          THEN fpending + 1 ELSE fpending
         /\ fres' = FragmentResult(logs)
         /\ fpc' = IF IsCalled(FragmentResult(logs)) THEN "returned" ELSE "sleep"
    /\ UNCHANGED <<fduration, fslept, exceptFrag>>

\* std::thread::sleep(duration), end of one iteration
SleepFragment ==
    /\ fpc = "sleep"
    /\ fslept' = fslept + fduration
    /\ fpc' = AfterFragmentSleep(fpolls)
    /\ UNCHANGED <<fduration, fpolls, fpending, flog, fres, exceptFrag>>

\* bail!(ErrorKind::FragmentIsPendingForTooLong(id, duration * max_try, alias, log))
BailFragment ==
    /\ fpc = "bail"
    /\ fres' = Err([kind |-> "FragmentIsPendingForTooLong",
                    duration |-> fduration * WaitFragmentMaxTry])
    /\ fpc' = "returned"
    /\ UNCHANGED <<fduration, fpolls, fpending, fslept, flog, exceptFrag>>

----------------------------------------------------------------------------
(* LegacyNode: the status shared with its controllers *)

MaxControllers == 2
MaxPolls == 3

\* enum Status
Running == [tag |-> "Running"]
Failure == [tag |-> "Failure"]
Exit(status) == [tag |-> "Exit", status |-> status]

\* ExitStatus of the node process: success() or not
ExitStatuses == {0, 1}

\* process.poll(cx)
ProcessPolls ==
    {[poll |-> "Pending"], [poll |-> "ReadyErr"]}
      \cup {[poll |-> "ReadyOk", status |-> st] : st \in ExitStatuses}

\* variant: a process error is logged and the status is left as it was
StatusAfterPollErrorKept(status, p) ==
    IF p.poll = "ReadyOk" THEN Exit(p.status) ELSE status

\* the status the arms of `match process.poll(cx)` leave: set_status(Failure),
\* nothing for Pending, set_status(Exit(status))
StatusAfterPoll(status, p) ==
    IF p.poll = "ReadyErr" THEN Failure
    ELSE IF p.poll = "Pending" THEN status
    ELSE Exit(p.status)

\* variant: the node counts as running unless it failed
check_running_unless_failure(status) == status # Failure

\* self.status() == Status::Running
check_running(status) == status = Running

\* LegacyNode::spawn: command.spawn() fails, or the node is built with status Running
Spawn ==
    /\ nproc = "none"
    /\ \/ nproc' = "failed" /\ nstatus' = nstatus
       \/ nproc' = "running" /\ nstatus' = Running
    /\ UNCHANGED <<nctl, npolled, nlast, nchecked, exceptNode>>

\* LegacyNode::controller: status: self.status.clone()
Controller ==
    /\ nproc \in {"running", "done"}
    /\ nctl < MaxControllers
    /\ nctl' = nctl + 1
    /\ UNCHANGED <<nproc, nstatus, npolled, nlast, nchecked, exceptNode>>

\* <LegacyNode as Future>::poll
PollNode ==
    /\ nproc = "running"
    /\ npolled < MaxPolls
    /\ npolled' = npolled + 1
    /\ \E p \in ProcessPolls :
         /\ nlast' = p
         /\ nstatus' = StatusAfterPoll(nstatus, p)
         /\ nproc' = IF p.poll = "Pending" THEN "running" ELSE "done"
    /\ UNCHANGED <<nctl, nchecked, exceptNode>>

\* LegacyNodeController::check_running, on any controller of the node
CheckRunning ==
    /\ \E c \in 1..nctl :
         nchecked' = [by |-> c, status |-> nstatus, answer |-> check_running(nstatus)]
    /\ UNCHANGED <<nproc, nstatus, nctl, npolled, nlast, exceptNode>>

----------------------------------------------------------------------------
(* LegacyNodeController::shutdown and wait_for_shutdown *)

\* let max_try = 2; let sleep = Duration::from_secs(2);
WaitForShutdownMaxTry == 2
WaitForShutdownSleep == 2

\* self.get("shutdown")?.text()?: a failure, or the text of the response
ShutdownOutcomes == {Err("Reqwest"), Ok(""), Ok("not allowed")}

\* what one poll may see: whether self.stats() failed, and whether
\* TcpListener::bind succeeds on the REST port and on the P2P port
Observations == [stats_err : BOOLEAN, rest : BOOLEAN, p2p : BOOLEAN]

\* self.port_opened(rest port) && self.port_opened(p2p port)
ports_are_opened(obs) == obs.rest /\ obs.p2p

\* variant: a failing stats request is enough
NodeIsDownStatsOnly(obs) == obs.stats_err

\* self.stats().is_err() && self.ports_are_opened()
NodeIsDown(obs) == obs.stats_err /\ ports_are_opened(obs)

\* what shutdown returns straight after the request, NotCalled when it goes
\* on to wait_for_shutdown
ShutdownResult(r) ==
    IF ~r.ok THEN Err([kind |-> "Request", source |-> r.err])
    ELSE IF r.val = "" THEN NotCalled
    ELSE Err([kind |-> "NodeFailedToShutdown", message |-> r.val])

\* for _ in 0..max_try: where the loop goes after n iterations
AfterShutdownSleep(n) == IF n < WaitForShutdownMaxTry THEN "poll" ELSE "bail"

\* the seconds named in "node is still up after {} s from sending shutdown request"
ReportedSeconds == WaitForShutdownSleep

\* LegacyNodeController::shutdown up to the call of wait_for_shutdown
Shutdown ==
    /\ dpc = "idle"
    /\ \E r \in ShutdownOutcomes :
         /\ dbody' = r
         /\ dres' = ShutdownResult(r)
         /\ dpc' = IF IsCalled(ShutdownResult(r)) THEN "returned" ELSE "poll"
    /\ UNCHANGED <<dpolls, dslept, dobs, exceptDown>>

\* if self.stats().is_err() && self.ports_are_opened() { return Ok(()) }
PollShutdown ==
    /\ dpc = "poll"
    /\ dpolls' = dpolls + 1
    /\ \E obs \in Observations :
         /\ dobs' = Append(dobs, obs)
         /\ dres' = IF NodeIsDown(obs) THEN Ok("unit") ELSE dres
         /\ dpc' = IF NodeIsDown(obs) THEN "returned" ELSE "sleep"
    /\ UNCHANGED <<dbody, dslept, exceptDown>>

\* std::thread::sleep(sleep), end of one iteration
SleepShutdown ==
    /\ dpc = "sleep"
    /\ dslept' = dslept + WaitForShutdownSleep
    /\ dpc' = AfterShutdownSleep(dpolls)
    /\ UNCHANGED <<dbody, dpolls, dobs, dres, exceptDown>>

\* bail!(ErrorKind::NodeFailedToShutdown(alias, format!(.., sleep.as_secs()), log))
BailShutdown ==
    /\ dpc = "bail"
    /\ dres' = Err([kind |-> "NodeFailedToShutdown", seconds |-> ReportedSeconds])
    /\ dpc' = "returned"
    /\ UNCHANGED <<dbody, dpolls, dslept, dobs, exceptDown>>

----------------------------------------------------------------------------
(* assert_nodes_are_in_sync *)

NNodes == 3
MaxHeight == 4

\* let grace_value = 2;
grace_value == 2

\* node.rest().stats().unwrap().stats.unwrap().last_block_height.unwrap()
\* .parse::<i32>().unwrap(): a height, or a panic of one of the unwraps
Heights == 0..MaxHeight
HeightOutcomes == {Ok(h) : h \in Heights} \cup {Err("unwrap")}

\* (current_block_height - block_height).abs()
abs(current_block_height, block_height) ==
    IF current_block_height >= block_height
      THEN current_block_height - block_height
      ELSE block_height - current_block_height

\* the condition of the assert!: the node is compared with the first node
InSync(current_block_height, block_height) ==
    abs(current_block_height, block_height) <= grace_value

\* assert_nodes_are_in_sync(nodes): if nodes.len() < 2 { return; }
AssertNodesAreInSync ==
    /\ apc = "idle"
    /\ \E n \in 0..NNodes :
         /\ anodes' = n
         /\ apc' = IF n < 2 THEN "returned" ELSE "wait"
    /\ UNCHANGED <<aslept, aqueried, aheights, exceptSync>>

\* process_utils::sleep((nodes.len() * 10) as u64)
SyncWait ==
    /\ apc = "wait"
    /\ aslept' = anodes * 10
    /\ apc' = "first"
    /\ UNCHANGED <<anodes, aqueried, aheights, exceptSync>>

\* let block_height = first_node.rest().stats()...
QueryFirstNode ==
    /\ apc = "first"
    /\ aqueried' = aqueried + 1
    /\ \E r \in HeightOutcomes :
         IF r.ok
           THEN aheights' = <<r.val>> /\ apc' = "next"
           ELSE aheights' = aheights /\ apc' = "panicked"
    /\ UNCHANGED <<anodes, aslept, exceptSync>>

\* one iteration of for node in nodes.iter().skip(1)
QueryNextNode ==
    /\ apc = "next"
    /\ aqueried' = aqueried + 1
    /\ \E r \in HeightOutcomes :
         IF r.ok
           THEN /\ aheights' = Append(aheights, r.val)
                /\ apc' = IF ~InSync(r.val, aheights[1]) THEN "panicked"
                           ELSE IF Len(aheights) + 1 < anodes THEN "next"
                           ELSE "returned"
           ELSE aheights' = aheights /\ apc' = "panicked"
    /\ UNCHANGED <<anodes, aslept, exceptSync>>

----------------------------------------------------------------------------
(* Specifications *)

InitStartUp ==
    /\ pc = "init"
    /\ runs = 0
    /\ settings = NotCalled
    /\ storage = EmptyStore
    /\ calls = NoCalls
    /\ fetchArgs = <<>>
    /\ existed = NotCalled
    /\ got = NotCalled
    /\ fetched = NotCalled
    /\ prepared = NotCalled
    /\ cur = NotCalled
    /\ loads = <<>>
    /\ writes = [h \in Hashes |-> 0]

InitBootstrap ==
    /\ wpc = "poll"
    /\ polls = 0
    /\ requests = 0
    /\ slept = 0
    /\ last = NotCalled
    /\ wres = NotCalled

InitWaitFragment ==
    /\ fpc = "idle"
    /\ fduration = 0
    /\ fpolls = 0
    /\ fpending = 0
    /\ fslept = 0
    /\ flog = NotCalled
    /\ fres = NotCalled

InitNode ==
    /\ nproc = "none"
    /\ nstatus = NotCalled
    /\ nctl = 0
    /\ npolled = 0
    /\ nlast = NotCalled
    /\ nchecked = NotCalled

InitShutdown ==
    /\ dpc = "idle"
    /\ dbody = NotCalled
    /\ dpolls = 0
    /\ dslept = 0
    /\ dobs = <<>>
    /\ dres = NotCalled

InitSync ==
    /\ apc = "idle"
    /\ anodes = 0
    /\ aslept = 0
    /\ aqueried = 0
    /\ aheights = <<>>

InitHarness ==
    /\ InitWaitFragment
    /\ InitNode
    /\ InitShutdown
    /\ InitSync

InitRack ==
    /\ cache = NewCache
    /\ tpc = [t \in Tasks |-> "idle"]
    /\ tblob = [t \in Tasks |-> 0]
    /\ verdicts = <<>>
    /\ broadcasts = <<>>
    /\ out_channel = <<>>

Init ==
    /\ InitStartUp
    /\ InitBootstrap
    /\ InitHarness
    /\ InitRack
    /\ snapshot = NoDistribution
    /\ ranking = NotCalled

\* a rack whose cache holds any ids an LruCache of CACHE_SIZE entries can hold
Caches ==
    UNION {{c \in [1..n -> Blobs] : \A i, j \in 1..n : i # j => c[i] # c[j]} :
             n \in {m \in 0..NBlobs : m <= CACHE_SIZE}}

InitCache ==
    /\ InitStartUp
    /\ InitBootstrap
    /\ InitHarness
    /\ cache \in Caches
    /\ tpc = [t \in Tasks |-> "idle"]
    /\ tblob = [t \in Tasks |-> 0]
    /\ verdicts = <<>>
    /\ broadcasts = <<>>
    /\ out_channel = <<>>
    /\ snapshot = NoDistribution
    /\ ranking = NotCalled

\* the ranking applied to any stake distribution
InitRank ==
    /\ InitStartUp
    /\ InitBootstrap
    /\ InitHarness
    /\ InitRack
    /\ \/ snapshot = NoDistribution
       \/ \E n \in 0..NPools :
            \E ids \in IdOrders(n), info \in [1..n -> PoolStakeInformation] :
              snapshot = Distribution(n, ids, info)
    /\ ranking = NotCalled

Next ==
    \/ Start
    \/ OpenFile
    \/ Deserialize
    \/ Connect
    \/ BlockExists
    \/ GetBlock
    \/ FetchBlock
    \/ LoadFromBlock0
    \/ LoadFromStorage

Spec == Init /\ [][Next]_vars

NextRack ==
    \/ \E t \in Tasks, x \in Blobs : HandleBlob(t, x)
    \/ \E t \in Tasks : BroadcastBlob(t)

SpecRack == Init /\ [][NextRack]_vars

\* deliveries to a rack whose cache holds any ids
SpecCache == InitCache /\ [][NextRack]_vars

NextFill ==
    \/ Fill
    \/ BroadcastBlob(1)

\* CACHE_SIZE + 1 distinct ids delivered to a fresh rack
SpecFill == Init /\ [][NextFill]_vars

NextRank == Rank

SpecRank == InitRank /\ [][NextRank]_vars

NextRankBy == RankBy

SpecRankBy == InitRank /\ [][NextRankBy]_vars

NextBootstrap ==
    \/ PollStats
    \/ LogStats
    \/ Sleep
    \/ Bail

SpecBootstrap == Init /\ [][NextBootstrap]_vars

NextWaitFragment ==
    \/ WaitFragment
    \/ PollFragmentLogs
    \/ SleepFragment
    \/ BailFragment

SpecWaitFragment == Init /\ [][NextWaitFragment]_vars

NextNode ==
    \/ Spawn
    \/ Controller
    \/ PollNode
    \/ CheckRunning

SpecNode == Init /\ [][NextNode]_vars

NextShutdown ==
    \/ Shutdown
    \/ PollShutdown
    \/ SleepShutdown
    \/ BailShutdown

SpecShutdown == Init /\ [][NextShutdown]_vars

NextSync ==
    \/ AssertNodesAreInSync
    \/ SyncWait
    \/ QueryFirstNode
    \/ QueryNextNode

SpecSync == Init /\ [][NextSync]_vars

----------------------------------------------------------------------------
(* Properties of prepare_block_0 *)

HashSpec == IsCalled(settings) = FALSE /\ "kind" \in DOMAIN settings /\ settings.kind = "Hash"
Resolved == IsCalled(prepared)

\* C1: with a Hash(h) spec absent from the storage, every block that
\* prepare_block_0 returns Ok from the network path has hash h; a fetched
\* block with another hash is not returned as Ok.
C1_NetworkBlockHasRequestedHash ==
    (HashSpec /\ IsCalled(fetched) /\ Resolved /\ prepared.ok)
        => HeaderHash(prepared.val) = settings.hash

\* C2: with a Hash(h) spec, once the existence check answered true,
\* network::fetch_block is not called in that resolution, and a block returned
\* Ok is the block the store holds for h.
C2_StoredBlockNoFetch ==
    (HashSpec /\ existed = Ok(TRUE))
        => /\ calls.fetch_block = 0
           /\ fetchArgs = <<>>
           /\ ~IsCalled(fetched)
           /\ (Resolved /\ prepared.ok)
                => /\ calls.get_block = 1
                   /\ block_exists(storage, settings.hash)
                   /\ prepared.val = get_block(storage, settings.hash)

C2_Witness ==
    HashSpec /\ existed = Ok(TRUE) /\ Resolved /\ prepared.ok /\ pc = "load"

\* C3: with a Hash(h) spec, once the existence check answered false,
\* network::fetch_block is called at most once, and when the resolution has
\* ended it was called exactly once, with h, and the resolution's result is
\* the fetched block or the conversion of the fetch failure.
C3_AbsentFetchOnce ==
    (HashSpec /\ existed = Ok(FALSE))
        => /\ calls.fetch_block <= 1
           /\ calls.get_block = 0
           /\ Resolved
                => /\ calls.fetch_block = 1
                   /\ fetchArgs = <<settings.hash>>
                   /\ IsCalled(fetched)
                   /\ fetched.ok => prepared = Ok(fetched.val)
                   /\ ~fetched.ok => prepared = Err(FetchBlockErrorInto(fetched.err))

C3_Witness ==
    /\ HashSpec /\ existed = Ok(FALSE) /\ Resolved
    /\ fetched.ok /\ HeaderHash(fetched.val) # settings.hash

----------------------------------------------------------------------------
(* Properties of BottleRack *)

\* C4: two consecutive deliveries of one blob id that was not in the cache
\* (made one after the other by one task) are judged (new, duplicate), and
\* a blob judged new is in the cache when its handle_blob has returned.
C4_NewThenDuplicate ==
    /\ \A i \in 1..(Len(verdicts) - 1) :
         (/\ verdicts[i][1] = verdicts[i + 1][1]
          /\ verdicts[i][2] = verdicts[i + 1][2]
          /\ verdicts[i][3])
            => ~verdicts[i + 1][3]
    /\ \A i \in 1..Len(verdicts) :
         (verdicts[i][3] /\ tpc[verdicts[i][1]] = "idle")
            => contains(cache, verdicts[i][2])

\* C5: with at most CACHE_SIZE distinct blob ids in play, no blob id is
\* handed to broadcast_blob more than once.
C5_BroadcastOnce ==
    NBlobs <= CACHE_SIZE
        => \A i, j \in 1..Len(broadcasts) : i # j => broadcasts[i] # broadcasts[j]

\* C6: of two tasks inside handle_blob for the same blob id at the same time,
\* at most one has judged it new and is about to broadcast it.
C6_AtMostOneNew ==
    \A t1, t2 \in Tasks :
        (t1 # t2 /\ tpc[t1] = "broadcast" /\ tpc[t2] = "broadcast")
            => tblob[t1] # tblob[t2]

----------------------------------------------------------------------------
(* Properties of load_blockchain *)

\* a call in which the store or the ledger failed
Faulty(l) ==
    \/ ~l.fresh.ok /\ l.fresh.err \in OtherBlockchainErrors
    \/ IsCalled(l.resume) /\ ~l.resume.ok /\ l.resume.err \in OtherBlockchainErrors

PathOk(r) == IsCalled(r) /\ r.ok

\* C8: block 0 is written to the store at most once per hash, the store
\* holds at most one block per block-0 hash, and in every successful
\* load_blockchain call exactly one of load_from_block0 and load_from_storage
\* returned Ok.
C8_SingleRoot ==
    /\ \A h \in Hashes :
         /\ writes[h] <= 1
         /\ Cardinality({b \in storage.blocks : HeaderHash(b) = h}) <= 1
    /\ \A i \in 1..Len(loads) :
         loads[i].result.ok => (PathOk(loads[i].fresh) # PathOk(loads[i].resume))

C8_Witness ==
    /\ Len(loads) >= 3
    /\ \A i \in 1..3 : loads[i].result.ok /\ loads[i].block0 = loads[1].block0
    /\ writes[HeaderHash(loads[1].block0)] = 1

\* C9: load_from_storage is called exactly when load_from_block0 failed with
\* Block0AlreadyInStorage; the call's result is then the result of
\* load_from_storage and the failure of load_from_block0 is not reported.
C9_ResumeIffAlreadyInStorage ==
    /\ pc = "resume" => cur.fresh = Err(Block0AlreadyInStorage)
    /\ \A i \in 1..Len(loads) :
         /\ IsCalled(loads[i].resume) <=> loads[i].fresh = Err(Block0AlreadyInStorage)
         /\ IsCalled(loads[i].resume)
              => /\ loads[i].result.ok = loads[i].resume.ok
                 /\ loads[i].resume.ok => loads[i].result.val.tip = loads[i].resume.val
                 /\ ~loads[i].resume.ok
                      => loads[i].result = Err(BlockchainErrorInto(loads[i].resume.err))

C9_Witness ==
    \E i \in 1..Len(loads) :
        loads[i].fresh = Err(Block0AlreadyInStorage) /\ loads[i].resume.ok

\* C10: a failure of load_from_block0 other than Block0AlreadyInStorage is
\* what load_blockchain returns, and load_from_storage is not called; a
\* failure of load_from_storage is what load_blockchain returns; neither
\* yields a (Blockchain, Tip) pair.
C10_OtherFailuresPropagate ==
    \A i \in 1..Len(loads) :
        /\ (~loads[i].fresh.ok /\ loads[i].fresh.err # Block0AlreadyInStorage)
             => /\ ~IsCalled(loads[i].resume)
                /\ loads[i].result = Err(BlockchainErrorInto(loads[i].fresh.err))
        /\ (IsCalled(loads[i].resume) /\ ~loads[i].resume.ok)
             => loads[i].result = Err(BlockchainErrorInto(loads[i].resume.err))

C10_Witness ==
    /\ \E i \in 1..Len(loads) : loads[i].fresh = Err("Block0InitialLedgerError")
    /\ \E i \in 1..Len(loads) :
         IsCalled(loads[i].resume) /\ loads[i].resume = Err("Block0InitialLedgerError")

----------------------------------------------------------------------------
(* Properties of stake_pools_sorted_by *)

Ranked == IsCalled(ranking)

\* stake.total of the pool of the snapshot with the given id
TotalOf(id) ==
    snapshot.to_pools[CHOOSE k \in 1..Len(snapshot.to_pools) :
                          snapshot.to_pools[k][1] = id][2].total

\* C11: with the comparator by stake.total the returned pool ids are in
\* non-increasing order of total stake (highest stake first); stakes
\* 1:10, 2:50, 3:30 give <<2, 3, 1>>.
C11_HighestStakeFirst ==
    Ranked =>
        /\ \A i, j \in 1..Len(ranking.val.out) :
             i < j => TotalOf(ranking.val.out[i]) >= TotalOf(ranking.val.out[j])
        /\ (/\ Len(snapshot.to_pools) = 3
            /\ \A k \in 1..3 :
                 snapshot.to_pools[k] \in {<<1, [total |-> 10]>>, <<2, [total |-> 50]>>,
                                           <<3, [total |-> 30]>>})
             => ranking.val.out = <<2, 3, 1>>

C11_Witness ==
    /\ Ranked
    /\ snapshot.to_pools = <<<<1, [total |-> 10]>>, <<2, [total |-> 50]>>,
                             <<3, [total |-> 30]>>>>
    /\ ranking.val.out = <<2, 3, 1>>

\* C12: without a stake distribution, and with a distribution of no pools,
\* stake_pools_sorted_by returns the empty sequence, with no error and no
\* call of the comparator.
C12_EmptyRanking ==
    (Ranked /\ (~snapshot.some \/ snapshot.to_pools = <<>>))
        => /\ ranking.ok
           /\ ranking.val.out = <<>>
           /\ ranking.val.cmps = 0

C12_Witness ==
    Ranked /\ ~snapshot.some /\ ranking.val.out = <<>>

----------------------------------------------------------------------------
(* Properties of the BottleRack cache *)

AllIdle == \A t \in Tasks : tpc[t] = "idle"
Held(c) == {c[i] : i \in 1..Len(c)}

\* C13: after CACHE_SIZE + 1 distinct blob ids were delivered to a fresh
\* rack the cache holds exactly CACHE_SIZE ids: all delivered ids but the
\* first one, which was evicted.
C13_OneEviction ==
    (Len(verdicts) = CACHE_SIZE + 1 /\ AllIdle)
        => /\ Len(cache) = CACHE_SIZE
           /\ Held(cache) = 2..(CACHE_SIZE + 1)

\* C14: the cache never holds more than CACHE_SIZE ids and holds no id twice.
C14_BoundedCache ==
    /\ Len(cache) <= CACHE_SIZE
    /\ Cardinality(Held(cache)) = Len(cache)

C14_Witness ==
    Len(verdicts) = CACHE_SIZE + 1 /\ AllIdle /\ Len(broadcasts) = CACHE_SIZE + 1

C16_DuplicateDropped ==
    /\ \A i \in 1..Len(verdicts) : contains(cache, verdicts[i][2]) => ~verdicts[i][3]
    /\ \A t \in Tasks : tpc[t] = "broadcast" => ~contains(cache, tblob[t])
    /\ \A k \in 1..Len(broadcasts) : ~contains(cache, broadcasts[k])
    /\ \A m \in 1..Len(out_channel) : ~contains(cache, out_channel[m].blob)

C16_Witness ==
    /\ AllIdle
    /\ Len(verdicts) = 2
    /\ \A i \in 1..2 : contains(cache, verdicts[i][2]) /\ ~verdicts[i][3]
    /\ broadcasts = <<>>
    /\ out_channel = <<>>

\* C17: every blob that handle_blob judged new and handed to broadcast_blob
\* is on the outbound channel once broadcast_blob has returned.
C17_NewBlobEnqueued ==
    \A k \in 1..Len(broadcasts) :
        \E m \in 1..Len(out_channel) : out_channel[m].blob = broadcasts[k]

----------------------------------------------------------------------------
(* Properties of prepare_block_0, continued *)

PathSpec == "kind" \in DOMAIN settings /\ settings.kind = "Path"
NoStorageOrNetworkCall ==
    /\ calls.connect = 0
    /\ calls.block_exists = 0
    /\ calls.get_block = 0
    /\ calls.fetch_block = 0
    /\ fetchArgs = <<>>
    /\ ~IsCalled(existed) /\ ~IsCalled(got) /\ ~IsCalled(fetched)

\* C18: with a Path spec prepare_block_0 makes no storage operation and no
\* network fetch, and a successful resolution returns the block of the file.
C18_PathTouchesNothing ==
    PathSpec
        => /\ NoStorageOrNetworkCall
           /\ (Resolved /\ prepared.ok)
                => /\ settings.file.content = "Block"
                   /\ prepared.val = settings.file.block
                   /\ calls.open = 1 /\ calls.deserialize = 1

C18_Witness ==
    PathSpec /\ Resolved /\ prepared.ok /\ pc = "load"

\* C19: with a Path spec a file that cannot be opened gives the IO error
\* and a file that cannot be deserialized gives the parse error, both with
\* reason Block0; the resolution ends there, with no storage lookup and no
\* network fetch.
C19_PathFailureTerminal ==
    PathSpec
        => /\ (settings.file.content = "Unreadable" /\ calls.open >= 1)
                => /\ prepared = Err([variant |-> "IO", reason |-> "Block0"])
                   /\ pc = "exit"
                   /\ calls.deserialize = 0
                   /\ NoStorageOrNetworkCall
           /\ (settings.file.content = "Malformed" /\ calls.deserialize >= 1)
                => /\ prepared = Err([variant |-> "ParseError", reason |-> "Block0"])
                   /\ pc = "exit"
                   /\ NoStorageOrNetworkCall
           /\ (Resolved /\ ~prepared.ok)
                => settings.file.content \in {"Unreadable", "Malformed"}

C19_Witness ==
    /\ PathSpec /\ settings.file.content = "Unreadable"
    /\ Resolved /\ ~prepared.ok /\ pc = "exit"

----------------------------------------------------------------------------
(* Further properties of start-up *)

C22_SourcesInSequence ==
    /\ pc = "exists" => (calls.connect = 1 /\ calls.block_exists = 0)
    /\ calls.block_exists >= 1 => (calls.connect = 1 /\ IsCalled(existed))
    /\ (pc = "get" \/ calls.get_block >= 1)
         => (existed = Ok(TRUE) /\ calls.fetch_block = 0 /\ ~IsCalled(fetched))
    /\ (pc = "fetch" \/ calls.fetch_block >= 1)
         => (existed = Ok(FALSE) /\ calls.get_block = 0 /\ ~IsCalled(got))
    /\ ~(pc = "get" /\ calls.get_block >= 1)
    /\ ~(pc = "fetch" /\ calls.fetch_block >= 1)

C22_Witness ==
    /\ HashSpec /\ existed = Ok(FALSE)
    /\ calls.connect = 1 /\ calls.block_exists = 1 /\ calls.fetch_block = 1
    /\ IsCalled(fetched) /\ fetched.ok

\* C23: one call of prepare_block_0 invokes each collaborator operation at
\* most once, at most three in all, and once one of them has failed the
\* call is over: no source is consulted after a failure.
C23_SinglePass ==
    /\ \A op \in DOMAIN calls : calls[op] <= 1
    /\ calls.open + calls.deserialize + calls.connect + calls.block_exists
           + calls.get_block + calls.fetch_block <= 3
    /\ (Resolved /\ ~prepared.ok) => pc = "exit"
    /\ (IsCalled(existed) /\ ~existed.ok) => (calls.get_block = 0 /\ calls.fetch_block = 0)
    /\ (IsCalled(fetched) /\ ~fetched.ok) => (calls.fetch_block = 1 /\ pc = "exit")
    /\ (IsCalled(got) /\ ~got.ok) => (calls.get_block = 1 /\ pc = "exit")

C23_Witness ==
    /\ HashSpec /\ fetched = Err("NoTrustedPeers")
    /\ calls.fetch_block = 1 /\ pc = "exit" /\ ~prepared.ok

\* a storage operation that has been issued
Issued(op) ==
    CASE op = "load_from_block0" -> pc = "resume" \/ Len(loads) >= 1
      [] op = "load_from_storage" -> \E i \in 1..Len(loads) : IsCalled(loads[i].resume)
      [] OTHER -> calls[op] >= 1

\* C24: every storage operation issued by prepare_block_0 and load_blockchain
\* runs in the blocking off-load context (spawn_blocking) and is awaited.
C24_StorageOffloaded ==
    \A op \in StorageOps : Issued(op) => ExecutionContext(op) = "spawn_blocking"

\* C25: a storage connection of prepare_block_0 serves one storage operation:
\* there are never more operations than connections checked out.
C25_ConnectionPerOperation == UsesOfConnection <= calls.connect

\* C27: with a Hash(h) spec a storage error of the connection or of the
\* existence check is the result of the resolution, which ends there without
\* a network fetch; the network is asked only after the answer "absent".
C27_StorageErrorBeforeFetch ==
    HashSpec
        => /\ (calls.connect = 1 /\ calls.block_exists = 0 /\ Resolved)
                => /\ \E e \in {"BackendError", "BlockNotFound"} :
                         prepared = Err([variant |-> "StorageBackendError", source |-> e])
                   /\ pc = "exit"
                   /\ calls.fetch_block = 0 /\ ~IsCalled(fetched)
           /\ (IsCalled(existed) /\ ~existed.ok)
                => /\ prepared = Err([variant |-> "StorageBackendError",
                                      source |-> existed.err])
                   /\ pc = "exit"
                   /\ calls.fetch_block = 0 /\ ~IsCalled(fetched)
           /\ calls.fetch_block >= 1 => existed = Ok(FALSE)

C27_Witness ==
    /\ HashSpec /\ existed = Err("BackendError")
    /\ prepared = Err([variant |-> "StorageBackendError", source |-> "BackendError"])
    /\ pc = "exit" /\ calls.fetch_block = 0

----------------------------------------------------------------------------
(* Further properties of stake_pools_sorted_by *)

\* position of a pool id in the ranking returned
PositionOf(id) == CHOOSE k \in 1..Len(ranking.val.out) : ranking.val.out[k] = id

\* two pools of the snapshot, the first earlier in the iteration, of equal total stake
Tied(i, j) ==
    /\ i < j
    /\ snapshot.to_pools[i][2].total = snapshot.to_pools[j][2].total

\* C26 as stated: pools of equal total stake appear in the ranking in the
\* order in which the iteration of the snapshot's pools yields them.
C26_TiesInIterationOrder ==
    (Ranked /\ snapshot.some)
        => \A i, j \in 1..Len(snapshot.to_pools) :
             Tied(i, j) => PositionOf(snapshot.to_pools[i][1])
                              < PositionOf(snapshot.to_pools[j][1])

\* C26: pools of equal total stake appear in the ranking in the reverse of
\* the order in which the iteration of the snapshot's pools yields them (the
\* stable sort keeps the iteration order and the final .rev() turns it round).
C26_TiesInReverseIterationOrder ==
    (Ranked /\ snapshot.some)
        => \A i, j \in 1..Len(snapshot.to_pools) :
             Tied(i, j) => PositionOf(snapshot.to_pools[j][1])
                              < PositionOf(snapshot.to_pools[i][1])

C26_Witness ==
    /\ Ranked /\ snapshot.some /\ Len(snapshot.to_pools) = 3
    /\ Tied(1, 3) /\ ~Tied(1, 2)
    /\ PositionOf(snapshot.to_pools[3][1]) < PositionOf(snapshot.to_pools[1][1])

\* C28: for any snapshot and any comparator the ranking is a permutation of
\* the pool ids of the snapshot: as long as the pools, every id of the
\* distribution in it, and no id twice.
C28_RankingIsPermutation ==
    Ranked
        => /\ Len(ranking.val.out) = Len(snapshot.to_pools)
           /\ {ranking.val.out[k] : k \in 1..Len(ranking.val.out)}
                = {snapshot.to_pools[k][1] : k \in 1..Len(snapshot.to_pools)}
           /\ Cardinality({ranking.val.out[k] : k \in 1..Len(ranking.val.out)})
                = Len(ranking.val.out)

C28_Witness ==
    /\ Ranked /\ snapshot.some /\ Len(snapshot.to_pools) = 3
    /\ Len(ranking.val.out) = 3
    /\ \E k \in 1..2 : TotalOf(ranking.val.out[k]) < TotalOf(ranking.val.out[k + 1])

\* C29: no ranking changes the stake snapshot: the pools of the distribution
\* and their totals are the same after every ranking, however many rankings
\* read the snapshot.
C29_SnapshotUnchanged == [][snapshot' = snapshot]_vars

C29_Witness ==
    /\ Ranked /\ snapshot.some /\ Len(snapshot.to_pools) = 3
    /\ ranking.val.cmps >= 2
    /\ \E k \in 1..3 : ranking.val.out[k] # snapshot.to_pools[k][1]
    /\ snapshot.to_pools[1][2].total > snapshot.to_pools[2][2].total

----------------------------------------------------------------------------
(* Properties of LegacyNodeController::wait_for_bootstrap *)

\* the state-level part of C30
C30_Bounds ==
    /\ polls <= 20
    /\ requests <= polls + 1
    /\ (IsCalled(wres) /\ wres.ok)
         => /\ last = Ok("Running")
            /\ slept = 8 * (polls - 1)
            /\ requests = polls + 1
    /\ (IsCalled(last) /\ ~last.ok /\ IsCalled(wres))
         => (polls = 20 /\ ~wres.ok)
    /\ (IsCalled(wres) /\ ~wres.ok)
         => /\ wres = Err([kind |-> "NodeFailedToBootstrap", duration |-> 160])
            /\ polls = 20 /\ requests = 20 /\ slept = 160
            /\ last # Ok("Running")
    /\ (IsCalled(last) /\ last # Ok("Running") /\ polls < 20) => ~IsCalled(wres)

\* C30: wait_for_bootstrap runs its polling loop at most 20 times; it returns
\* Ok at the first poll that reports Running (after the one further stats
\* request log_stats makes); a failed stats request is followed by the
\* sleep and the next poll; after 20 polls without Running it returns
\* NodeFailedToBootstrap with duration 160 s; once it has returned it sends
\* no request and does not sleep.
C30_WaitForBootstrap ==
    /\ []C30_Bounds
    /\ [][IsCalled(wres) => UNCHANGED bootVars]_vars

C30_Witness ==
    /\ wres = Err([kind |-> "NodeFailedToBootstrap", duration |-> 160])
    /\ polls = 20 /\ slept = 160 /\ ~last.ok

----------------------------------------------------------------------------
(* Properties of LegacyNodeController::wait_fragment *)

\* the state-level part of C31
C31_Outcomes ==
    /\ fpolls <= 50
    /\ (IsCalled(fres) /\ fres.ok)
         => /\ fres.val \in {"Rejected", "InABlock"}
            /\ flog = Ok([some |-> TRUE, status |-> fres.val])
            /\ fpending = fpolls - 1
    /\ (IsCalled(flog) /\ flog = Ok([some |-> FALSE]))
         => /\ fres = Err([kind |-> "FragmentNoInMemPoolLogs"])
            /\ fpc = "returned"
            /\ fpending = fpolls - 1
    /\ (IsCalled(fres) /\ ~fres.ok /\ fres.err.kind = "FragmentIsPendingForTooLong")
         => (fpolls = 50 /\ fpending = 50)
    /\ fres # Ok("Pending")

\* C31: wait_fragment polls the fragment logs at most 50 times; it returns
\* Ok(status) at the first poll that finds the fragment Rejected or InABlock;
\* it fails with FragmentNoInMemPoolLogs at the first poll that does not find
\* the fragment, and polls no more; it returns FragmentIsPendingForTooLong
\* only after 50 polls that all found it Pending; it never returns Ok(Pending).
C31_WaitFragment ==
    /\ []C31_Outcomes
    /\ [][IsCalled(fres) => UNCHANGED fragVars]_vars

C31_Witness ==
    /\ IsCalled(fres) /\ ~fres.ok /\ fres.err.kind = "FragmentIsPendingForTooLong"
    /\ fpolls = 50 /\ fpending = 50 /\ fduration = 2 /\ fslept = 100

----------------------------------------------------------------------------
(* Properties of the status of a LegacyNode *)

\* the state-level part of C32
C32_StatusFollowsProcess ==
    /\ nproc = "running" => nstatus = [tag |-> "Running"]
    /\ nproc = "done"
         => /\ nlast.poll = "ReadyErr" => nstatus = [tag |-> "Failure"]
            /\ nlast.poll = "ReadyOk"
                 => nstatus = [tag |-> "Exit", status |-> nlast.status]
            /\ nlast.poll # "Pending"
    /\ "answer" \in DOMAIN nchecked
         => (nchecked.answer <=> nchecked.status = [tag |-> "Running"])

\* C32: the status shared by a node and its controllers is Running from the
\* spawn until the process future completes; a poll changes it only when the
\* process is ready, to Failure on an error and to Exit(status) on an exit,
\* and leaves it as it is while the process is pending; check_running()
\* answers true exactly when the status is Running.
C32_SharedStatus ==
    /\ []C32_StatusFollowsProcess
    /\ [][(nproc = "running" /\ nstatus' # nstatus)
             => (nproc' = "done" /\ nlast'.poll # "Pending")]_vars

C32_Witness ==
    /\ nproc = "done" /\ npolled = 3 /\ nctl = 2
    /\ nlast.poll = "ReadyErr" /\ nstatus = [tag |-> "Failure"]
    /\ "answer" \in DOMAIN nchecked /\ nchecked.by = 2 /\ ~nchecked.answer

----------------------------------------------------------------------------
(* Properties of LegacyNodeController::shutdown *)

\* C33: shutdown returns Ok only if the request answered with an empty body
\* and one of at most 2 polls saw the node down (stats failing, both ports
\* free to bind); a non-empty body gives NodeFailedToShutdown without any
\* poll; 2 unsuccessful polls give NodeFailedToShutdown whose message names
\* the seconds waited since the request.
C33_ShutdownReportsWait ==
    /\ dpolls <= 2
    /\ (IsCalled(dres) /\ dres.ok)
         => /\ dbody = Ok("")
            /\ dpolls \in {1, 2}
            /\ Len(dobs) = dpolls
            /\ dobs[dpolls] = [stats_err |-> TRUE, rest |-> TRUE, p2p |-> TRUE]
    /\ (IsCalled(dbody) /\ dbody.ok /\ dbody.val # "")
         => /\ dres = Err([kind |-> "NodeFailedToShutdown", message |-> dbody.val])
            /\ dpolls = 0
    /\ (IsCalled(dres) /\ ~dres.ok /\ dpolls >= 1)
         => /\ dpolls = 2
            /\ dres.err.kind = "NodeFailedToShutdown"
            /\ dres.err.seconds = dslept

----------------------------------------------------------------------------
(* Properties of assert_nodes_are_in_sync *)

\* C34: when assert_nodes_are_in_sync returns normally for two or more nodes,
\* every two nodes of the list have heights at most 2 apart; for fewer than
\* two nodes it returns without a request to any node.
C34_AllPairsInSync ==
    apc = "returned"
        => /\ anodes >= 2
                => /\ Len(aheights) = anodes
                   /\ \A i, j \in 1..Len(aheights) :
                        /\ aheights[i] - aheights[j] <= 2
                        /\ aheights[j] - aheights[i] <= 2
           /\ anodes < 2 => (aqueried = 0 /\ aheights = <<>>)

====
